---- MODULE Spec2Model ----
(***************************************************************************)
(* A model of the appointment-booking receptionist: the conversation store *)
(* (MemoryService), the metadata extractor (generator path and pattern     *)
(* fallback), the booking trigger (LLMService.should_book_appointment),    *)
(* the booking coordinator (AppointmentService) and the websocket turn     *)
(* loop that drives them.  Text is modelled as strings; Python's string    *)
(* methods and the regular expressions of the source are operators that    *)
(* compute what the source computes.                                       *)
(***************************************************************************)
EXTENDS Integers, Sequences, FiniteSets, TLC

(***************************************************************************)
(* Python string methods                                                   *)
(***************************************************************************)
UpperLetters == "ABCDEFGHIJKLMNOPQRSTUVWXYZ"
LowerLetters == "abcdefghijklmnopqrstuvwxyz"
DigitChars == "0123456789"

\* s[i-1] in Python: the i-th character, a string of length one
Ch(s, i) == SubSeq(s, i, i)

InStr(c, chars) == \E k \in 1..Len(chars) : Ch(chars, k) = c

PosIn(c, chars) == CHOOSE k \in 1..Len(chars) : Ch(chars, k) = c

IsUpper(c) == InStr(c, UpperLetters)
IsLower(c) == InStr(c, LowerLetters)
IsLetter(c) == IsUpper(c) \/ IsLower(c)
IsDigit(c) == InStr(c, DigitChars)
IsSpace(c) == c = " "
\* \w of the re module
IsWordCh(c) == IsLetter(c) \/ IsDigit(c) \/ c = "_"

LowerCh(c) == IF IsUpper(c) THEN Ch(LowerLetters, PosIn(c, UpperLetters)) ELSE c
UpperCh(c) == IF IsLower(c) THEN Ch(UpperLetters, PosIn(c, LowerLetters)) ELSE c

RECURSIVE Lower(_)
\* str.lower()
Lower(s) == IF s = "" THEN "" ELSE LowerCh(Head(s)) \o Lower(Tail(s))

RECURSIVE Upper(_)
\* str.upper()
Upper(s) == IF s = "" THEN "" ELSE UpperCh(Head(s)) \o Upper(Tail(s))

RECURSIVE TitleFrom(_, _)
TitleFrom(s, prevCased) ==
    IF s = "" THEN ""
    ELSE LET c == Head(s)
         IN (IF ~IsLetter(c) THEN c
             ELSE IF prevCased THEN LowerCh(c) ELSE UpperCh(c))
            \o TitleFrom(Tail(s), IsLetter(c))

\* str.title(): a letter that follows a letter is lower-cased, any other
\* letter is upper-cased
Title(s) == TitleFrom(s, FALSE)

RECURSIVE LStrip(_)
LStrip(s) == IF s # "" /\ IsSpace(Head(s)) THEN LStrip(Tail(s)) ELSE s

RECURSIVE RStrip(_)
RStrip(s) ==
    IF s # "" /\ IsSpace(Ch(s, Len(s))) THEN RStrip(SubSeq(s, 1, Len(s) - 1)) ELSE s

\* str.strip()
Strip(s) == RStrip(LStrip(s))

StartsAt(s, sub, i) ==
    /\ i >= 1
    /\ i + Len(sub) - 1 <= Len(s)
    /\ SubSeq(s, i, i + Len(sub) - 1) = sub

\* str.find(sub, from) + 1: the first position >= from where sub starts, 0 if none
Find(s, sub, from) ==
    LET hits == {i \in from..(Len(s) - Len(sub) + 1) : StartsAt(s, sub, i)}
    IN IF hits = {} THEN 0 ELSE CHOOSE i \in hits : \A j \in hits : i <= j

\* sub in s
Contains(s, sub) == Find(s, sub, 1) # 0

\* s.split(sep)[0]
SplitPart0(s, sep) ==
    LET p == Find(s, sep, 1)
    IN IF p = 0 THEN s ELSE SubSeq(s, 1, p - 1)

\* s.split(sep)[1], for s that contains sep
SplitPart1(s, sep) ==
    LET p == Find(s, sep, 1)
        after == SubSeq(s, p + Len(sep), Len(s))
    IN SplitPart0(after, sep)

RECURSIVE Replace(_, _, _)
\* str.replace(old, new)
Replace(s, old, new) ==
    LET p == Find(s, old, 1)
    IN IF p = 0 THEN s
       ELSE SubSeq(s, 1, p - 1) \o new
            \o Replace(SubSeq(s, p + Len(old), Len(s)), old, new)

\* \b of the re module at the gap before position p
Boundary(s, p) ==
    (p > 1 /\ IsWordCh(Ch(s, p - 1))) # (p <= Len(s) /\ IsWordCh(Ch(s, p)))

\* the end of the longest run of characters of the class chars that starts
\* at i (i - 1 when s[i] is not of the class)
RunEnd(s, i, chars) ==
    LET stops == {k \in i..Len(s) : ~InStr(Ch(s, k), chars)}
    IN IF stops = {} THEN Len(s)
       ELSE (CHOOSE k \in stops : \A j \in stops : k <= j) - 1

Max(S) == CHOOSE x \in S : \A y \in S : y <= x
Min(S) == CHOOSE x \in S : \A y \in S : x <= y

(***************************************************************************)
(* Field maps: Python dicts from slot names to values                      *)
(***************************************************************************)
Slots == {"customer_name", "service_type", "preferred_stylist", "date", "time",
          "email", "phone"}

\* {}
EmptyMap == [k \in {} |-> ""]

\* {k: v}
One(k, v) == k :> v

\* dict.update: a with every key of b set to b's value
Update(a, b) == b @@ a

\* dict.get(k, default)
Get(m, k, default) == IF k \in DOMAIN m THEN m[k] ELSE default

(***************************************************************************)
(* MemoryService._extract_metadata_regex: the pattern fallback             *)
(***************************************************************************)
name_indicators == <<"my name is", "i'm", "im", "call me", "this is">>
services == <<"haircut", "coloring", "color", "styling", "spa", "treatment">>
stylists == <<"riya", "maya", "sarah", "alex">>
email_keywords == <<"email is", "email id is", "email address is", "my email",
                    "email:", "mail is">>
date_keywords == <<"tomorrow", "today", "monday", "tuesday", "wednesday",
                   "thursday", "friday", "saturday">>

\* for w in words: if w in text: ...; break -- the first listed word found, "" if none
FirstListed(words, text) ==
    LET found == {i \in 1..Len(words) : Contains(text, words[i])}
    IN IF found = {} THEN "" ELSE words[Min(found)]

\* The name loop.  An indicator found in the text with nothing but white space
\* after it makes split()[0] raise IndexError; a one-letter token moves on to
\* the next indicator.
RECURSIVE NameFrom(_, _)
NameFrom(text_lower, i) ==
    IF i > Len(name_indicators) THEN [raised |-> FALSE, md |-> EmptyMap]
    ELSE IF ~Contains(text_lower, name_indicators[i]) THEN NameFrom(text_lower, i + 1)
    ELSE LET part == Strip(SplitPart1(text_lower, name_indicators[i]))
         IN IF part = "" THEN [raised |-> TRUE, md |-> EmptyMap]
            ELSE LET potential_name == SplitPart0(LStrip(part), " ")
                 IN IF Len(potential_name) > 1
                    THEN [raised |-> FALSE,
                          md |-> One("customer_name", Title(potential_name))]
                    ELSE NameFrom(text_lower, i + 1)

\* [a-z0-9] of simple_pattern, and \s of the time patterns on text that holds
\* no whitespace but the space
LowerAlnumChars == LowerLetters \o DigitChars
SpaceChars == " "

\* the ends of a top-level part of email_pattern whose "." is at d + 1: two
\* or more characters of [A-Z|a-z], a word boundary after the last
TldEnds(s, d) == {e \in (d + 3)..RunEnd(s, d + 2, UpperLetters \o "|" \o LowerLetters) : Boundary(s, e + 1)}

\* the last position of the match whose domain ends at the latest of dots
LastTldEnd(s, dots) == IF dots = {} THEN 0 ELSE Max(TldEnds(s, Max(dots)))

\* email_pattern anchored at i with the local part ending before at: the
\* domain is taken as long as possible and given back until a "." and a
\* top-level part follow
EmailEndFrom(s, i, at) ==
    IF ~(Boundary(s, i) /\ at > i /\ at <= Len(s) /\ Ch(s, at) = "@") THEN 0
    ELSE LastTldEnd(s, {d \in (at + 1)..RunEnd(s, at + 1, UpperLetters \o LowerLetters \o DigitChars \o ".-") :
                            /\ d + 1 <= Len(s)
                            /\ Ch(s, d + 1) = "."
                            /\ TldEnds(s, d) # {}})

\* the text of the leftmost of matches, pairs <<first, last>> of positions
\* with last = 0 where the pattern does not match; "" when none matches
FirstMatch(s, matches) ==
    LET hits == {m \in matches : m[2] # 0}
        first == CHOOSE m \in hits : \A n \in hits : m[1] <= n[1]
    IN IF hits = {} THEN "" ELSE SubSeq(s, first[1], first[2])

\* re.findall(email_pattern, s)[0], "" when there is no match: the pattern
\* anchored at each i, its local part a run of [A-Za-z0-9._%+-]
FirstEmail(s) ==
    FirstMatch(s, {<<i, EmailEndFrom(s, i,
                         RunEnd(s, i, UpperLetters \o LowerLetters \o DigitChars
                                      \o "._%+-") + 1)>> : i \in 1..Len(s)})

\* simple_pattern with "@" at at and "." at dot: the last position of the
\* match, 0 if none
SimpleEmailEndFrom(s, i, at, dot) ==
    IF /\ at > i /\ at <= Len(s) /\ Ch(s, at) = "@"
       /\ dot > at + 1 /\ dot <= Len(s) /\ Ch(s, dot) = "."
       /\ RunEnd(s, dot + 1, LowerLetters) >= dot + 2
    THEN RunEnd(s, dot + 1, LowerLetters) ELSE 0

SimpleEmailEndAfter(s, i, at) ==
    SimpleEmailEndFrom(s, i, at, RunEnd(s, at + 1, LowerAlnumChars) + 1)

\* re.search(simple_pattern, s).group(0), "" when there is no match
FirstSimpleEmail(s) ==
    FirstMatch(s, {<<i, SimpleEmailEndAfter(s, i, RunEnd(s, i, LowerAlnumChars) + 1)>>
                   : i \in 1..Len(s)})

\* the text after the keyword, cut at the first ".", "," and "and"
AfterKeyword(text_lower, keyword) ==
    IF keyword = "" THEN text_lower
    ELSE Strip(SplitPart0(SplitPart0(SplitPart0(
             Strip(SplitPart1(text_lower, keyword)), "."), ","), "and"))

\* the spoken-token substitutions
EmailCleaned(email_part) ==
    Replace(Replace(Replace(Replace(Replace(email_part,
        "at the rate", "@"), "at rate", "@"), " at ", "@"), " dot ", "."), " by ", "")

\* the first of three results that is not ""
FirstFound(a, b, c) == IF a # "" THEN a ELSE IF b # "" THEN b ELSE c

\* the pattern on the text as given, then on the cleaned part, then the
\* simple pattern on the cleaned part
EmailIn(text, cleaned) ==
    FirstFound(FirstEmail(text), FirstEmail(cleaned), FirstSimpleEmail(cleaned))

SlotOf(slot, value) == IF value = "" THEN EmptyMap ELSE One(slot, value)

\* the email block: the substitutions are made in the part of the lower-cased
\* text after the first email keyword found, the whole text when none is
EmailFrom(text, text_lower) ==
    SlotOf("email", EmailIn(text, EmailCleaned(
        AfterKeyword(text_lower, FirstListed(email_keywords, text_lower)))))

\* n digits at i, white space, then the meridiem with the given letter:
\* a.m., am, a.m, am. and the like
MeridiemAfter(s, a, letter) ==
    StartsAt(s, letter, a) /\ (StartsAt(s, "m", a + 1) \/ StartsAt(s, ".m", a + 1))

DigitsAt(s, i, n) == \A k \in i..(i + n - 1) : k <= Len(s) /\ IsDigit(Ch(s, k))

MeridiemOk(s, i, n, letter) ==
    DigitsAt(s, i, n) /\ MeridiemAfter(s, RunEnd(s, i + n, SpaceChars) + 1, letter)

\* (\d{1,2})\s*(?:a\.?m\.?|am) with letter "a", or "p": group 1 of the match
\* anchored at i, "" if none.  Two digits are tried before one.
HourMeridiemAt(s, i, letter) ==
    IF MeridiemOk(s, i, 2, letter) THEN SubSeq(s, i, i + 1)
    ELSE IF MeridiemOk(s, i, 1, letter) THEN Ch(s, i)
    ELSE ""

\* where group 2 of (\d{1,2}):00\s*(am|pm) starts after n digits at i
ColonAfter(s, i, n) == RunEnd(s, i + n + 3, SpaceChars) + 1

ColonOk(s, i, n) ==
    /\ DigitsAt(s, i, n)
    /\ StartsAt(s, ":00", i + n)
    /\ (StartsAt(s, "am", ColonAfter(s, i, n)) \/ StartsAt(s, "pm", ColonAfter(s, i, n)))

ColonGroups(s, i, n) ==
    IF n = 0 THEN <<"", "">>
    ELSE <<SubSeq(s, i, i + n - 1), SubSeq(s, ColonAfter(s, i, n), ColonAfter(s, i, n) + 1)>>

\* (\d{1,2}):00\s*(am|pm): <<group 1, group 2>> of the match anchored at i
HourColonAt(s, i) ==
    ColonGroups(s, i, IF ColonOk(s, i, 2) THEN 2 ELSE IF ColonOk(s, i, 1) THEN 1 ELSE 0)

\* the first of the three patterns that matches anywhere wins; am, pm and
\* colon are the positions where each matches
TimeAmong(text_lower, am, pm, colon) ==
    IF am # {}
    THEN One("time", HourMeridiemAt(text_lower, Min(am), "a") \o ":00 AM")
    ELSE IF pm # {}
    THEN One("time", HourMeridiemAt(text_lower, Min(pm), "p") \o ":00 PM")
    ELSE IF colon # {}
    THEN One("time", HourColonAt(text_lower, Min(colon))[1] \o ":00 "
                     \o Upper(HourColonAt(text_lower, Min(colon))[2]))
    ELSE EmptyMap

\* the time loop
TimeFrom(text_lower) ==
    TimeAmong(text_lower,
              {i \in 1..Len(text_lower) : HourMeridiemAt(text_lower, i, "a") # ""},
              {i \in 1..Len(text_lower) : HourMeridiemAt(text_lower, i, "p") # ""},
              {i \in 1..Len(text_lower) : HourColonAt(text_lower, i)[1] # ""})

\* a vocabulary loop: the first listed word found, title-cased, under slot
VocabularyFrom(slot, words, text_lower) ==
    SlotOf(slot, Title(FirstListed(words, text_lower)))

\* the blocks after the name loop, in the order the code runs them
ExtractAfterName(text, text_lower, name) ==
    IF name.raised THEN [raised |-> TRUE, md |-> EmptyMap]
    ELSE [raised |-> FALSE,
          md |-> Update(Update(Update(Update(Update(name.md,
                     VocabularyFrom("service_type", services, text_lower)),
                     VocabularyFrom("preferred_stylist", stylists, text_lower)),
                     EmailFrom(text, text_lower)),
                     TimeFrom(text_lower)),
                     VocabularyFrom("date", date_keywords, text_lower))]

ExtractLowered(text, text_lower) ==
    ExtractAfterName(text, text_lower, NameFrom(text_lower, 1))

\* _extract_metadata_regex(text): the field map, or raised when the name loop
\* raises
ExtractMetadataRegex(text) == ExtractLowered(text, Lower(text))

(***************************************************************************)
(* LLMService.extract_metadata_with_llm: the generator path                *)
(*                                                                         *)
(* A value of the generator's JSON object is a record [t, s, items]: t is  *)
(* its JSON type, s the text of a string (or of a number), items the       *)
(* elements of a list or the values of an object, in order, each [t, s].   *)
(* A key the object lacks reads as null, as dict.get gives None.           *)
(***************************************************************************)
JNull == [t |-> "null", s |-> "", items |-> <<>>]
JStr(str) == [t |-> "str", s |-> str, items |-> <<>>]
JNum(digits) == [t |-> "num", s |-> digits, items |-> <<>>]
JList(elems) == [t |-> "list", s |-> "", items |-> elems]
JDict(vals) == [t |-> "dict", s |-> "", items |-> vals]
\* an element of a list, a value of an object
EStr(str) == [t |-> "str", s |-> str]

ResponseKeys == Slots \cup {"stylist"}

\* {} with every key null
NullObject == [k \in ResponseKeys |-> JNull]

\* Python truth of a JSON value
Truthy(v) ==
    CASE v.t = "null" -> FALSE
      [] v.t = "str" -> v.s # ""
      [] v.t = "num" -> v.s # "0"
      [] OTHER -> v.items # <<>>

\* what one slot's block yields: a field map, or raised when the block raises
\* (AttributeError: a method of str called on a value that is no str)
Yield(md) == [raised |-> FALSE, md |-> md]
Raises == [raised |-> TRUE, md |-> EmptyMap]

\* a slot read with isinstance(value, str) guarding value.strip().title()
TitledSlot(d, slot) ==
    IF Truthy(d[slot]) /\ d[slot].t = "str"
    THEN Yield(One(slot, Title(Strip(d[slot].s))))
    ELSE Yield(EmptyMap)

\* a slot read with isinstance(value, str) guarding value.strip()
StrippedSlot(d, slot) ==
    IF Truthy(d[slot]) /\ d[slot].t = "str"
    THEN Yield(One(slot, Strip(d[slot].s)))
    ELSE Yield(EmptyMap)

\* service_type: a list gives its first element, which must be a str
ServiceSlot(d) ==
    LET service == d["service_type"]
    IN IF ~Truthy(service) THEN Yield(EmptyMap)
       ELSE IF service.t = "list"
       THEN IF service.items[1].t = "str"
            THEN Yield(One("service_type", Title(Strip(service.items[1].s))))
            ELSE Raises
       ELSE IF service.t = "str"
       THEN Yield(One("service_type", Title(Strip(service.s))))
       ELSE Yield(EmptyMap)

\* a stylist kept under the key the response gave it (what C30 rules out)
StylistSlotUnderGivenKey(d) ==
    IF Truthy(d["preferred_stylist"]) /\ d["preferred_stylist"].t = "str"
    THEN Yield(One("preferred_stylist", Title(Strip(d["preferred_stylist"].s))))
    ELSE IF Truthy(d["stylist"]) /\ d["stylist"].t = "str"
    THEN Yield(One("stylist", Title(Strip(d["stylist"].s))))
    ELSE Yield(EmptyMap)

\* preferred_stylist, or stylist: a dict gives its first str value
StylistSlot(d) ==
    LET stylist == IF Truthy(d["preferred_stylist"]) THEN d["preferred_stylist"]
                   ELSE d["stylist"]
        strs == {i \in 1..Len(stylist.items) : stylist.items[i].t = "str"}
    IN IF ~Truthy(stylist) THEN Yield(EmptyMap)
       ELSE IF stylist.t = "str"
       THEN Yield(One("preferred_stylist", Title(Strip(stylist.s))))
       ELSE IF stylist.t = "dict" /\ strs # {}
       THEN Yield(One("preferred_stylist", Title(Strip(stylist.items[Min(strs)].s))))
       ELSE Yield(EmptyMap)

domain_fixes ==
    [d \in {"gmail", "yahoo", "hotmail", "outlook", "theregiment", "regiment"}
        |-> d \o ".com"]

\* email: strip and lower are called on the value whatever its type
EmailSlot(d) ==
    LET v == d["email"]
        email == Lower(Strip(v.s))
        local == SplitPart0(email, "@")
        domain == SubSeq(email, Len(local) + 2, Len(email))
        fixed == IF Contains(domain, ".") THEN domain
                 ELSE IF domain \in DOMAIN domain_fixes THEN domain_fixes[domain]
                 ELSE domain \o ".com"
    IN IF ~Truthy(v) THEN Yield(EmptyMap)
       ELSE IF v.t # "str" THEN Raises
       ELSE IF Cardinality({i \in 1..Len(email) : Ch(email, i) = "@"}) = 1 /\ local # "" /\ domain # ""
       THEN Yield(One("email", local \o "@" \o fixed))
       ELSE Yield(EmptyMap)

\* The cleaning of a parsed object: the slots' blocks in the source's order.
\* A block that raises ends the function in its except clause, which returns {}.
CleanExtracted(d) ==
    LET blocks == <<TitledSlot(d, "customer_name"), ServiceSlot(d), StylistSlot(d),
                    TitledSlot(d, "date"), StrippedSlot(d, "time"), EmailSlot(d),
                    StrippedSlot(d, "phone")>>
        merged[i \in 0..Len(blocks)] ==
            IF i = 0 THEN EmptyMap ELSE Update(merged[i - 1], blocks[i].md)
    IN IF \E i \in 1..Len(blocks) : blocks[i].raised THEN EmptyMap
       ELSE merged[Len(blocks)]

\* extract_metadata_with_llm: a provider error, or a response json.loads
\* rejects, is caught by the function's own except clause, which returns {}
ExtractMetadataWithLLM(response) ==
    IF response.kind = "error" THEN EmptyMap ELSE CleanExtracted(response.object)

(***************************************************************************)
(* LLMService.should_book_appointment: the booking trigger                 *)
(***************************************************************************)
\* what the generator answers to the reply request
Replies == {"You're all set!", "What time works for you?"}

apology == "I apologize, I'm having trouble processing that. Could you please repeat?"

booking_phrases ==
    <<"confirmed", "scheduled", "booked", "appointment set", "i've scheduled",
      "i've booked", "all set", "appointment is confirmed", "you're all set",
      "i have you booked", "booking confirmed">>

required_fields == <<"customer_name", "service_type", "email", "date", "time">>

has_booking_phrase(llm_response) ==
    \E i \in 1..Len(booking_phrases) : Contains(Lower(llm_response), booking_phrases[i])

\* a get_response without its except branch: the failure's text goes on as
\* the reply (what C10 rules out)
get_response_unguarded(answer) == answer

\* get_response: the generator's answer, the apology when the request raised
get_response(answer) == IF answer = "error" THEN apology ELSE answer

\* replies given to the trigger when it is called directly: one for each
\* phrase of either implementation's list, in some casing, and some without
TriggerReplies ==
    {"Your appointment is confirmed.", "I have you booked for Monday.",
     "Booking confirmed!", "You're all set!", "ALL SET", "Appointment set.",
     "I've scheduled it", "I've booked you in", "It is on the schedule",
     "What time works for you?", ""}

\* has_booking_phrase of every reply of the model, computed once
BookingPhraseIn ==
    [llm_response \in {get_response(answer) : answer \in Replies \cup {"error"}}
                      \cup TriggerReplies
        |-> has_booking_phrase(llm_response)] @@ <<>>

\* a has_all_info that asks for a stylist as well (what C21 rules out)
has_all_info_with_stylist(metadata) ==
    \A slot \in {"customer_name", "service_type", "email", "date", "time",
                 "preferred_stylist"} :
        slot \in DOMAIN metadata /\ metadata[slot] # ""

has_all_info(metadata) ==
    \A i \in 1..Len(required_fields) :
        required_fields[i] \in DOMAIN metadata /\ metadata[required_fields[i]] # ""

\* a trigger that looks at the reply alone (what C1 rules out)
should_book_on_phrase_alone(llm_response, metadata) == BookingPhraseIn[llm_response]

should_book_appointment(llm_response, metadata) ==
    BookingPhraseIn[llm_response] /\ has_all_info(metadata)

\* speedchain-assignment/backend/services/llm_service.py: the other
\* LLMService of the repository
booking_phrases_assignment ==
    <<"confirmed", "scheduled", "booked", "appointment set", "i've scheduled",
      "i've booked", "all set">>

\* its should_book_appointment: has_all_info is `field in metadata` for the
\* same five fields
should_book_appointment_assignment(llm_response, metadata) ==
    /\ \E i \in 1..Len(booking_phrases_assignment) :
          Contains(Lower(llm_response), booking_phrases_assignment[i])
    /\ \A i \in 1..Len(required_fields) : required_fields[i] \in DOMAIN metadata

(***************************************************************************)
(* Bounds of the model and the inputs the environment draws from           *)
(***************************************************************************)
\* requests the server handles: websocket messages and POSTs, over all clients
MaxRequests == 2
\* writes of a store file that fail, in the specification with a faulty disk
MaxDiskFaults == 1

\* websocket connections; w1 connects as client c1, w2 as c1 or as c2
Conns == {"w1", "w2"}

\* what a user says: every required slot at once, and a sentence whose last
\* word ends in "im"
Utterances == {"call me al spa today 9am a@b.io", "i want a trim"}

\* what a text message may hold
TextInputs == Utterances \cup {""}

\* what the generator answers to the extraction request: a provider error or
\* an unparseable body, a complete object, an object whose time is blank, an
\* object that names a stylist (under the key "stylist") and a phone number
LLMResponses ==
    { [kind |-> "error", object |-> NullObject],
      [kind |-> "object",
       object |-> [NullObject EXCEPT !["customer_name"] = JStr("john smith"),
                                     !["service_type"] = JStr("haircut"),
                                     !["date"] = JStr("monday"),
                                     !["time"] = JStr("10:00 AM"),
                                     !["email"] = JStr("john@gmail")]],
      [kind |-> "object", object |-> [NullObject EXCEPT !["time"] = JStr(" ")]],
      [kind |-> "object",
       object |-> [NullObject EXCEPT !["stylist"] = JStr("maya"),
                                     !["phone"] = JStr("555 0100")]] }

\* bodies of POST /schedule-appointment that pass the AppointmentRequest
\* model: every field a str, phone defaulting to ""
RestRequests ==
    { [customer_name |-> "Jane Doe", service_type |-> "Haircut", stylist |-> "Riya",
       date |-> "Monday", time |-> "10:00 AM", email |-> e, phone |-> ""]
      : e \in {"jane@x.com", ""} }

greeting ==
    "Hello! Welcome to Gloss and Glow Hair Salon. I'm your AI receptionist. How can I help you today?"


(***************************************************************************)
(* State                                                                   *)
(***************************************************************************)
VARIABLES
    endpoint,            \* the websocket_endpoint deployed: "main" or "routes"
    llm_service,         \* MemoryService.llm_service is set (set_llm_service called)
    gmail_configured,    \* GMAIL_USER and GMAIL_PASSWORD are set
    conversations,       \* MemoryService.conversations
    conv_file,           \* data/conversations.json
    appointments,        \* AppointmentService.appointments
    appt_file,           \* data/appointments.json
    active_connections,  \* ConnectionManager.active_connections
    pc,                  \* where each connection's websocket_endpoint stands
    client_id,           \* each connection's client_id
    frame,               \* each connection's local variables
    rest,                \* the POST /schedule-appointment handler
    uuids,               \* ids uuid4 has handed out
    requests,            \* requests handled so far
    faults,              \* failing writes the disk may still produce
    mail_log,            \* calls of _send_confirmation_email, with their outcome
    calls,               \* calls of schedule_appointment: arguments, caller, result
    applied              \* the last method called directly on a service, outside
                         \* the endpoints: its name, arguments and result

vars == <<endpoint, llm_service, gmail_configured, conversations, conv_file,
          appointments, appt_file, active_connections, pc, client_id, frame, rest,
          uuids, requests, faults, mail_log, calls, applied>>

config == <<endpoint, llm_service, gmail_configured>>

\* the local variables of a turn that has not started
NoFrame ==
    [text |-> "", extracted |-> EmptyMap, extraction |-> "none", llm_response |-> "",
     audio |-> "none", should_book |-> "none", failed |-> {},
     request |-> [conversation_text |-> "",
                  existing_metadata |-> [given |-> FALSE, value |-> EmptyMap]]]

\* the locals when the loop is back at websocket.receive(): what the turn
\* extracted, answered and synthesized is not read again
EndTurn(fr) ==
    [NoFrame EXCEPT !.extraction = fr.extraction, !.should_book = fr.should_book]

\* a store file: ok is FALSE when the file holds a truncated document
EmptyFile == [ok |-> TRUE, doc |-> EmptyMap]

(***************************************************************************)
(* Persistence: _save_conversations, _save_appointments, _load_*           *)
(***************************************************************************)
\* what a write may do: succeed; raise before the file is opened; raise
\* after open(file, 'w') truncated it
WriteOutcomes == IF faults > 0 THEN {"ok", "failed_before", "failed_midway"} ELSE {"ok"}

\* a write that adds the records the file lacks and leaves those it has
\* (what C16 rules out)
SaveNewRecordsOnly(file, document, outcome) ==
    CASE outcome = "ok" ->
             [ok |-> TRUE,
              doc |-> [k \in DOMAIN document |->
                          IF file.ok /\ k \in DOMAIN file.doc THEN file.doc[k]
                          ELSE document[k]]]
      [] outcome = "failed_before" -> file
      [] OTHER -> [ok |-> FALSE, doc |-> EmptyMap]

\* the file after json.dump(document) under open(file, 'w'), the exception of
\* a failed write being caught and printed
Save(file, document, outcome) ==
    CASE outcome = "ok" -> [ok |-> TRUE, doc |-> document]
      [] outcome = "failed_before" -> file
      [] OTHER -> [ok |-> FALSE, doc |-> EmptyMap]

\* json.load of the file, {} when it is missing or cannot be parsed
Load(file) == IF file.ok THEN file.doc ELSE EmptyMap

FaultsAfter(outcomes) ==
    faults - Cardinality({i \in 1..Len(outcomes) : outcomes[i] # "ok"})

(***************************************************************************)
(* MemoryService                                                           *)
(***************************************************************************)
\* datetime.now().isoformat(): the model's clock has one reading
isoformat_now == "2025-01-01T10:00:00.000000"

\* an add_message that puts the new message first (what C13 rules out)
add_message_newest_first(convs, user_id, role, content, metadata) ==
    LET known == IF user_id \in DOMAIN convs THEN convs
                 ELSE convs @@ (user_id :> [messages |-> <<>>, metadata |-> EmptyMap])
        message == [role |-> role, content |-> content, timestamp |-> isoformat_now,
                    metadata |-> metadata]
    IN [known EXCEPT ![user_id] =
           [messages |-> <<message>> \o @.messages,
            metadata |-> IF metadata # EmptyMap THEN Update(@.metadata, metadata)
                         ELSE @.metadata]]

\* add_message, before its save
add_message(convs, user_id, role, content, metadata) ==
    LET known == IF user_id \in DOMAIN convs THEN convs
                 ELSE convs @@ (user_id :> [messages |-> <<>>, metadata |-> EmptyMap])
        message == [role |-> role, content |-> content, timestamp |-> isoformat_now,
                    metadata |-> metadata]
    IN [known EXCEPT ![user_id] =
           [messages |-> Append(@.messages, message),
            metadata |-> IF metadata # EmptyMap THEN Update(@.metadata, metadata)
                         ELSE @.metadata]]

\* a history read from the file instead of the store in memory (what C26
\* rules out)
get_conversation_history_from_file(convs, user_id) ==
    IF user_id \in DOMAIN Load(conv_file) THEN Load(conv_file)[user_id].messages
    ELSE <<>>

get_conversation_history(convs, user_id) ==
    IF user_id \in DOMAIN convs THEN convs[user_id].messages ELSE <<>>

\* a read that answers for an unknown session with a map of blank slots
\* (what C14 rules out)
get_user_metadata_blank(convs, user_id) ==
    IF user_id \in DOMAIN convs THEN convs[user_id].metadata ELSE [slot \in Slots |-> ""]

get_user_metadata(convs, user_id) ==
    IF user_id \in DOMAIN convs THEN convs[user_id].metadata ELSE EmptyMap

\* a merge into one map shared by every session (what C12 rules out)
merge_into_every_session(convs, user_id, metadata) ==
    [c \in DOMAIN convs |-> [convs[c] EXCEPT !.metadata = Update(@, metadata)]]

\* the end of extract_metadata: the extraction merged into the session's
\* metadata, before the save
merge_metadata(convs, user_id, metadata) ==
    IF user_id \in DOMAIN convs
    THEN [convs EXCEPT ![user_id].metadata = Update(@, metadata)]
    ELSE convs

RECURSIVE JoinContents(_)
\* " ".join([msg["content"] for msg in messages])
JoinContents(messages) ==
    IF messages = <<>> THEN ""
    ELSE IF Len(messages) = 1 THEN messages[1].content
    ELSE messages[1].content \o " " \o JoinContents(Tail(messages))

\* the arguments with which extract_metadata calls extract_metadata_with_llm:
\* the contents of the session's last five messages and the text, and no
\* existing_metadata, which so takes its default None (given is FALSE)
ExtractionCall(convs, user_id, text) ==
    LET conversation_history == get_conversation_history(convs, user_id)
        context_messages ==
            IF Len(conversation_history) > 5
            THEN SubSeq(conversation_history, Len(conversation_history) - 4,
                        Len(conversation_history))
            ELSE conversation_history
    IN [conversation_text |-> JoinContents(context_messages) \o " " \o text,
        existing_metadata |-> [given |-> FALSE, value |-> EmptyMap]]

\* the extractions of the inputs above, computed once
FallbackOf == [text \in TextInputs |-> ExtractMetadataRegex(text)]
CleanedOf == [response \in LLMResponses |-> ExtractMetadataWithLLM(response)]

(***************************************************************************)
(* AppointmentService                                                      *)
(***************************************************************************)
\* str(uuid.uuid4()) of the n-th call: an id no earlier call returned
Uuid(n) == "4f9a2c0" \o Ch(DigitChars, n + 1) \o "-7b1e-4d2a"

\* an appointment dict with date and time taken from each other's argument
\* (what C8 rules out)
NewAppointmentSwapped(appointment_id, a) ==
    [id |-> appointment_id,
     customer_name |-> a.customer_name,
     service_type |-> a.service_type,
     stylist |-> a.stylist,
     date |-> a.time,
     time |-> a.date,
     email |-> a.email,
     phone |-> a.phone,
     status |-> "confirmed",
     meeting_link |-> "https://meet.google.com/demo-" \o SubSeq(appointment_id, 1, 8)]

\* the appointment dict schedule_appointment builds
NewAppointment(appointment_id, a) ==
    [id |-> appointment_id,
     customer_name |-> a.customer_name,
     service_type |-> a.service_type,
     stylist |-> a.stylist,
     date |-> a.date,
     time |-> a.time,
     email |-> a.email,
     phone |-> a.phone,
     status |-> "confirmed",
     meeting_link |-> "https://meet.google.com/demo-" \o SubSeq(appointment_id, 1, 8)]

\* a store keyed by the customer's name instead of the id (what C6 rules out)
schedule_by_customer(appts, appointment_id, a) ==
    Update(appts, One(a.customer_name, NewAppointment(appointment_id, a)))

\* self.appointments[appointment_id] = appointment
schedule_appointment(appts, appointment_id, a) ==
    Update(appts, One(appointment_id, NewAppointment(appointment_id, a)))

\* what schedule_appointment returns
ScheduleResult(appointment_id) ==
    [appointment_id |-> appointment_id, status |-> "scheduled"]

NoResult == [appointment_id |-> "", status |-> ""]

\* list(self.appointments.values()), as the set of its records
get_all_appointments(appts) == {appts[id] : id \in DOMAIN appts}

\* _send_confirmation_email up to its await: without credentials it prints
\* and returns at once, otherwise aiosmtplib.send is awaited
SendStarts == IF gmail_configured THEN "sending" ELSE "not_configured"

\* a booking undone when its confirmation could not be sent (what C7 rules
\* out)
after_send_rolled_back(appts, appointment_id, outcome) ==
    IF outcome \in {"error", "not_configured"}
    THEN [id \in DOMAIN appts \ {appointment_id} |-> appts[id]]
    ELSE appts

\* the store when _send_confirmation_email has returned: a failed send is
\* caught and printed, nothing is undone
after_send(appts, appointment_id, outcome) == appts

\* The synchronous part of schedule_appointment, for caller `by` (a connection
\* or "rest") on behalf of `session`: a fresh id, the record stored, the file
\* written, the confirmation requested.  The call has returned when no send
\* is awaited.
Commit(by, session, a) ==
    \E o \in WriteOutcomes :
        LET appointment_id == Uuid(uuids + 1)
            stored == schedule_appointment(appointments, appointment_id, a)
        IN /\ uuids' = uuids + 1
           /\ appointments' = IF gmail_configured THEN stored
                              ELSE after_send(stored, appointment_id, SendStarts)
           /\ appt_file' = Save(appt_file, stored, o)
           /\ faults' = FaultsAfter(<<o>>)
           /\ mail_log' = Append(mail_log, [id |-> appointment_id, outcome |-> SendStarts])
           /\ calls' = Append(calls,
                  [id |-> appointment_id, by |-> by, session |-> session, args |-> a,
                   result |-> IF gmail_configured THEN NoResult
                              ELSE ScheduleResult(appointment_id)])

\* the await of aiosmtplib.send ends: sent, or an exception that
\* _send_confirmation_email catches and prints; schedule_appointment returns
SendEnds(appointment_id, outcome) ==
    /\ appointments' = after_send(appointments, appointment_id, outcome)
    /\ mail_log' = [i \in 1..Len(mail_log) |->
                       IF mail_log[i].id = appointment_id
                       THEN [mail_log[i] EXCEPT !.outcome = outcome]
                       ELSE mail_log[i]]
    /\ calls' = [i \in 1..Len(calls) |->
                    IF calls[i].id = appointment_id
                    THEN [calls[i] EXCEPT !.result = ScheduleResult(appointment_id)]
                    ELSE calls[i]]

\* the id of the call of schedule_appointment that caller `by` is awaiting
AwaitedBy(by) ==
    LET open == {i \in 1..Len(calls) : calls[i].by = by /\ calls[i].result = NoResult}
    IN calls[Max(open)].id

(***************************************************************************)
(* ConnectionManager                                                       *)
(***************************************************************************)
\* connect: self.active_connections[client_id] = websocket
connect(conns, websocket, c) == Update(conns, One(c, websocket))

\* disconnect: del self.active_connections[client_id], when it is there
disconnect(conns, c) == [k \in DOMAIN conns \ {c} |-> conns[k]]

(***************************************************************************)
(* websocket_endpoint: the turn loop of one connection                     *)
(***************************************************************************)
\* the state after the services are constructed, on a disk that may fail n
\* writes; main.py never calls set_llm_service, and whether the application
\* that mounts routes/websocket.py does is its choice
InitWith(n) ==
    /\ \E deployment \in {<<"main", FALSE>>, <<"routes", FALSE>>, <<"routes", TRUE>>} :
          endpoint = deployment[1] /\ llm_service = deployment[2]
    /\ gmail_configured \in BOOLEAN
    /\ conversations = EmptyMap
    /\ conv_file = EmptyFile
    /\ appointments = EmptyMap
    /\ appt_file = EmptyFile
    /\ active_connections = EmptyMap
    /\ pc = [w \in Conns |-> "idle"]
    /\ client_id = [w \in Conns |-> ""]
    /\ frame = [w \in Conns |-> NoFrame]
    /\ rest = "idle"
    /\ uuids = 0
    /\ requests = 0
    /\ faults = n
    /\ mail_log = <<>>
    /\ calls = <<>>
    /\ applied = [fn |-> "", args |-> <<>>, result |-> <<>>]

Init == InitWith(0)

\* the application that mounts routes/websocket.py, on a disk that may fail
\* MaxDiskFaults writes
InitFaulty == InitWith(MaxDiskFaults) /\ endpoint = "routes"

\* manager.connect, then the greeting appended to the session's history; the
\* greeting's synthesis and sending sit in a try that catches every exception
Connect(w) ==
    \E c \in (IF w = "w1" THEN {"c1"} ELSE {"c1", "c2"}), o \in WriteOutcomes :
        LET added == add_message(conversations, c, "assistant", greeting, EmptyMap)
        IN /\ pc[w] = "idle"
           /\ active_connections' = connect(active_connections, w, c)
           /\ client_id' = [client_id EXCEPT ![w] = c]
           /\ conversations' = added
           /\ conv_file' = Save(conv_file, added, o)
           /\ faults' = FaultsAfter(<<o>>)
           /\ pc' = [pc EXCEPT ![w] = "recv"]
           /\ UNCHANGED <<config, applied, appointments, appt_file, frame, rest, uuids, requests,
                          mail_log, calls>>

\* From the user's text to the await of the reply: add_message, then
\* extract_metadata.  main.py calls extract_metadata without await, which
\* makes a coroutine that never runs.  routes/websocket.py awaits it: with
\* an llm_service the generator is awaited, frame.request holding the
\* arguments of the call; without one the pattern fallback
\* runs at once, its result is merged and saved, and an IndexError of its
\* name loop leaves the loop through the handler that disconnects.
Utter(w, text) ==
    \E o1 \in WriteOutcomes, o2 \in WriteOutcomes :
        LET c == client_id[w]
            added == add_message(conversations, c, "user", text, EmptyMap)
            file1 == Save(conv_file, added, o1)
            fallback == FallbackOf[text]
            merged == merge_metadata(added, c, fallback.md)
            awaited == endpoint = "routes"
            runs == awaited /\ ~llm_service
        IN /\ FaultsAfter(<<o1, o2>>) >= 0
           /\ (runs /\ ~fallback.raised) \/ o2 = "ok"
           /\ faults' = FaultsAfter(<<o1, o2>>)
           /\ conversations' = IF runs /\ ~fallback.raised THEN merged ELSE added
           /\ conv_file' = IF runs /\ ~fallback.raised THEN Save(file1, merged, o2)
                           ELSE file1
           /\ active_connections' = IF runs /\ fallback.raised
                                    THEN disconnect(active_connections, c)
                                    ELSE active_connections
           /\ pc' = [pc EXCEPT ![w] = IF ~awaited THEN "reply"
                                      ELSE IF llm_service THEN "extract"
                                      ELSE IF fallback.raised THEN "closed"
                                      ELSE "reply"]
           /\ frame' = [frame EXCEPT ![w] =
                  [NoFrame EXCEPT !.text = text,
                                  !.extraction = IF ~awaited THEN "not_awaited"
                                                 ELSE IF llm_service THEN "awaiting"
                                                 ELSE IF fallback.raised THEN "raised"
                                                 ELSE "regex",
                                  !.extracted = IF runs THEN fallback.md
                                                ELSE EmptyMap,
                                  !.request = IF awaited /\ llm_service
                                              THEN ExtractionCall(added, c, text)
                                              ELSE @]]

\* websocket.receive() gives a text message
ReceiveText(w) ==
    \E text \in TextInputs :
        /\ pc[w] = "recv"
        /\ requests < MaxRequests
        /\ requests' = requests + 1
        /\ Utter(w, text)
        /\ UNCHANGED <<config, applied, appointments, appt_file, client_id, rest, uuids,
                       mail_log, calls>>

\* websocket.receive() gives audio: speech_to_text is awaited
ReceiveBytes(w) ==
    /\ pc[w] = "recv"
    /\ requests < MaxRequests
    /\ requests' = requests + 1
    /\ pc' = [pc EXCEPT ![w] = "stt"]
    /\ frame' = [frame EXCEPT ![w] = NoFrame]
    /\ UNCHANGED <<config, applied, conversations, conv_file, appointments, appt_file,
                   active_connections, client_id, rest, uuids, faults, mail_log, calls>>

\* speech_to_text returns text
Transcribed(w) ==
    \E transcription \in Utterances :
        /\ pc[w] = "stt"
        /\ Utter(w, transcription)
        /\ UNCHANGED <<config, applied, appointments, appt_file, client_id, rest, uuids, requests,
                       mail_log, calls>>

\* a loop without `if transcription:`, which takes the empty transcription
\* through the turn (what C15 rules out)
EmptyTranscriptionProcessed(w) ==
    /\ pc[w] = "stt"
    /\ Utter(w, "")
    /\ UNCHANGED <<config, applied, appointments, appt_file, client_id, rest, uuids,
                   requests, mail_log, calls>>

\* speech_to_text returns None (the transcriber failed) or "" (nothing was
\* said): `if transcription:` skips the turn
NotTranscribed(w) ==
    \E failedCall \in BOOLEAN :
        /\ pc[w] = "stt"
        /\ pc' = [pc EXCEPT ![w] = "recv"]
        /\ frame' = [frame EXCEPT ![w] = EndTurn(frame[w])]
        /\ UNCHANGED <<config, applied, conversations, conv_file, appointments, appt_file,
                       active_connections, client_id, rest, uuids, requests, faults,
                       mail_log, calls>>

\* the await of extract_metadata_with_llm ends; extract_metadata merges what
\* it returned and saves
Extracted(w) ==
    \E response \in LLMResponses, o \in WriteOutcomes :
        LET c == client_id[w]
            metadata == CleanedOf[response]
            merged == merge_metadata(conversations, c, metadata)
        IN /\ pc[w] = "extract"
           /\ conversations' = merged
           /\ conv_file' = IF c \in DOMAIN conversations
                           THEN Save(conv_file, merged, o) ELSE conv_file
           /\ faults' = FaultsAfter(<<o>>)
           /\ pc' = [pc EXCEPT ![w] = "reply"]
           /\ frame' = [frame EXCEPT ![w].extraction = "llm",
                                     ![w].extracted = metadata,
                                     ![w].request = NoFrame.request,
                                     ![w].failed = IF response.kind = "error"
                                                   THEN @ \cup {"extractor"} ELSE @]
           /\ UNCHANGED <<config, applied, appointments, appt_file, active_connections,
                          client_id, rest, uuids, requests, mail_log, calls>>

\* the await of get_response ends: the generator's text, or the apology when
\* the call raised; the reply is appended to the history
Replied(w) ==
    \E answer \in Replies \cup {"error"}, o \in WriteOutcomes :
        LET llm_response == get_response(answer)
            added == add_message(conversations, client_id[w], "assistant",
                                 llm_response, EmptyMap)
        IN /\ pc[w] = "reply"
           /\ conversations' = added
           /\ conv_file' = Save(conv_file, added, o)
           /\ faults' = FaultsAfter(<<o>>)
           /\ pc' = [pc EXCEPT ![w] = "tts"]
           /\ frame' = [frame EXCEPT ![w].llm_response = llm_response,
                                     ![w].failed = IF answer = "error"
                                                   THEN @ \cup {"generator"} ELSE @]
           /\ UNCHANGED <<config, applied, appointments, appt_file, active_connections,
                          client_id, rest, uuids, requests, mail_log, calls>>

\* the await of text_to_speech ends: audio, or b"" when the call raised
Synthesized(w) ==
    \E audio \in {"bytes", "empty"} :
        /\ pc[w] = "tts"
        /\ pc' = [pc EXCEPT ![w] = "trigger"]
        /\ frame' = [frame EXCEPT ![w].audio = audio,
                                  ![w].failed = IF audio = "empty"
                                                THEN @ \cup {"synthesizer"} ELSE @]
        /\ UNCHANGED <<config, applied, conversations, conv_file, appointments, appt_file,
                       active_connections, client_id, rest, uuids, requests, faults,
                       mail_log, calls>>

\* the arguments the turn loop passes to schedule_appointment
BookingArgs(user_metadata) ==
    [customer_name |-> user_metadata["customer_name"],
     service_type |-> user_metadata["service_type"],
     stylist |-> Get(user_metadata, "preferred_stylist", "Any Available"),
     date |-> user_metadata["date"],
     time |-> user_metadata["time"],
     email |-> user_metadata["email"],
     phone |-> Get(user_metadata, "phone", "")]

\* missing_fields of the turn loop
missing_fields(user_metadata) ==
    {i \in 1..Len(required_fields) : required_fields[i] \notin DOMAIN user_metadata}

\* after the audio is sent: the trigger is evaluated on the reply and the
\* session's accumulated metadata, and says no
NoBooking(w) ==
    LET user_metadata == get_user_metadata(conversations, client_id[w])
    IN /\ pc[w] = "trigger"
       /\ ~(should_book_appointment(frame[w].llm_response, user_metadata)
            /\ missing_fields(user_metadata) = {})
       /\ pc' = [pc EXCEPT ![w] = "recv"]
       /\ frame' = [frame EXCEPT ![w] = EndTurn([frame[w] EXCEPT !.should_book =
              IF should_book_appointment(frame[w].llm_response, user_metadata)
              THEN "yes" ELSE "no"])]
       /\ UNCHANGED <<config, applied, conversations, conv_file, appointments, appt_file,
                      active_connections, client_id, rest, uuids, requests, faults,
                      mail_log, calls>>

\* the trigger says yes and no required key is missing: schedule_appointment
Booking(w) ==
    LET user_metadata == get_user_metadata(conversations, client_id[w])
    IN /\ pc[w] = "trigger"
       /\ should_book_appointment(frame[w].llm_response, user_metadata)
       /\ missing_fields(user_metadata) = {}
       /\ Commit(w, client_id[w], BookingArgs(user_metadata))
       /\ pc' = [pc EXCEPT ![w] = IF gmail_configured THEN "mail" ELSE "recv"]
       /\ frame' = [frame EXCEPT ![w] =
              IF gmail_configured THEN [@ EXCEPT !.should_book = "yes"]
              ELSE EndTurn([@ EXCEPT !.should_book = "yes"])]
       /\ UNCHANGED <<config, applied, conversations, conv_file, active_connections,
                      client_id, rest, requests>>

\* the send awaited by the turn loop's schedule_appointment ends
Mailed(w) ==
    \E outcome \in {"sent", "error"} :
        /\ pc[w] = "mail"
        /\ SendEnds(AwaitedBy(w), outcome)
        /\ pc' = [pc EXCEPT ![w] = "recv"]
        /\ frame' = [frame EXCEPT ![w] = EndTurn(@)]
        /\ UNCHANGED <<config, applied, conversations, conv_file, appt_file,
                       active_connections, client_id, rest, uuids, requests, faults>>

\* the client goes away: receive() raises, the handler disconnects, the
\* endpoint returns
Disconnected(w) ==
    /\ pc[w] = "recv"
    /\ active_connections' = disconnect(active_connections, client_id[w])
    /\ pc' = [pc EXCEPT ![w] = "closed"]
    /\ UNCHANGED <<config, applied, conversations, conv_file, appointments, appt_file,
                   client_id, frame, rest, uuids, requests, faults, mail_log, calls>>

(***************************************************************************)
(* POST /schedule-appointment                                              *)
(***************************************************************************)
RestSchedule ==
    \E appointment \in RestRequests :
        /\ rest = "idle"
        /\ requests < MaxRequests
        /\ requests' = requests + 1
        /\ Commit("rest", "", appointment)
        /\ rest' = IF gmail_configured THEN "mail" ELSE "idle"
        /\ UNCHANGED <<config, applied, conversations, conv_file, active_connections, pc,
                       client_id, frame>>

RestMailed ==
    \E outcome \in {"sent", "error"} :
        /\ rest = "mail"
        /\ SendEnds(AwaitedBy("rest"), outcome)
        /\ rest' = "idle"
        /\ UNCHANGED <<config, applied, conversations, conv_file, appt_file,
                       active_connections, pc, client_id, frame, uuids, requests, faults>>

Next ==
    \/ \E w \in Conns :
          \/ Connect(w)
          \/ ReceiveText(w)
          \/ ReceiveBytes(w)
          \/ Transcribed(w)
          \/ NotTranscribed(w)
          \/ Extracted(w)
          \/ Replied(w)
          \/ Synthesized(w)
          \/ NoBooking(w)
          \/ Booking(w)
          \/ Mailed(w)
          \/ Disconnected(w)
    \/ RestSchedule
    \/ RestMailed

\* the system on a disk whose writes succeed
Spec == Init /\ [][Next]_vars

\* one connection's turn loop
NextOfOne ==
    \E w \in {"w1"} :
        \/ Connect(w)
        \/ ReceiveText(w)
        \/ ReceiveBytes(w)
        \/ Transcribed(w)
        \/ NotTranscribed(w)
        \/ Extracted(w)
        \/ Replied(w)
        \/ Synthesized(w)
        \/ NoBooking(w)
        \/ Booking(w)
        \/ Mailed(w)
        \/ Disconnected(w)

\* one connection on a disk that may fail MaxDiskFaults writes
SpecFaulty == InitFaulty /\ [][NextOfOne]_vars

(***************************************************************************)
(* MemoryService called directly: add_message, extract_metadata and the    *)
(* two reads, one call at a time, on a disk that may fail a write          *)
(***************************************************************************)
\* calls that mutate the store
MaxStoreCalls == 3

\* the sessions written; the reads are also of "c3", which never is
StoreUserIds == {"c1", "c2"}

InitStore ==
    /\ InitWith(MaxDiskFaults)
    /\ endpoint = "routes"
    /\ ~gmail_configured

\* memory_service.add_message(user_id, role, content, metadata)
CallAddMessage ==
    \E user_id \in StoreUserIds, role \in {"user", "assistant"},
       content \in {"hi", "You're all set!"},
       metadata \in {EmptyMap, One("date", "Monday")}, o \in WriteOutcomes :
        LET added == add_message(conversations, user_id, role, content, metadata)
        IN /\ requests < MaxStoreCalls
           /\ requests' = requests + 1
           /\ conversations' = added
           /\ conv_file' = Save(conv_file, added, o)
           /\ faults' = FaultsAfter(<<o>>)
           /\ applied' = [fn |-> "add_message",
                          args |-> <<user_id, role, content, metadata>>,
                          result |-> <<>>]
           /\ UNCHANGED <<config, appointments, appt_file, active_connections, pc,
                          client_id, frame, rest, uuids, mail_log, calls>>

\* await memory_service.extract_metadata(user_id, text), the step in which it
\* returns: with an llm_service what extract_metadata_with_llm made of the
\* generator's response, without one the pattern fallback, whose IndexError
\* goes to the caller; the extraction is merged and saved when the session
\* has a record
CallExtractMetadata ==
    \E user_id \in StoreUserIds, text \in TextInputs, response \in LLMResponses,
       o \in WriteOutcomes :
        LET extraction == IF llm_service THEN Yield(CleanedOf[response])
                          ELSE FallbackOf[text]
            merged == merge_metadata(conversations, user_id, extraction.md)
            saves == ~extraction.raised /\ user_id \in DOMAIN conversations
        IN /\ requests < MaxStoreCalls
           /\ requests' = requests + 1
           /\ saves \/ o = "ok"
           /\ conversations' = IF saves THEN merged ELSE conversations
           /\ conv_file' = IF saves THEN Save(conv_file, merged, o) ELSE conv_file
           /\ faults' = FaultsAfter(<<o>>)
           /\ applied' = [fn |-> "extract_metadata",
                          args |-> <<user_id, text>>,
                          result |-> extraction]
           /\ UNCHANGED <<config, appointments, appt_file, active_connections, pc,
                          client_id, frame, rest, uuids, mail_log, calls>>

\* memory_service.get_conversation_history(user_id)
CallGetConversationHistory ==
    \E user_id \in StoreUserIds \cup {"c3"} :
        /\ applied' = [fn |-> "get_conversation_history",
                       args |-> <<user_id>>,
                       result |-> get_conversation_history(conversations, user_id)]
        /\ UNCHANGED <<config, conversations, conv_file, appointments, appt_file,
                       active_connections, pc, client_id, frame, rest, uuids,
                       requests, faults, mail_log, calls>>

\* memory_service.get_user_metadata(user_id)
CallGetUserMetadata ==
    \E user_id \in StoreUserIds \cup {"c3"} :
        /\ applied' = [fn |-> "get_user_metadata",
                       args |-> <<user_id>>,
                       result |-> get_user_metadata(conversations, user_id)]
        /\ UNCHANGED <<config, conversations, conv_file, appointments, appt_file,
                       active_connections, pc, client_id, frame, rest, uuids,
                       requests, faults, mail_log, calls>>

NextStore ==
    \/ CallAddMessage
    \/ CallExtractMetadata
    \/ CallGetConversationHistory
    \/ CallGetUserMetadata

SpecStore == InitStore /\ [][NextStore]_vars

(***************************************************************************)
(* The two extractors called directly: _extract_metadata_regex on a text,  *)
(* extract_metadata_with_llm on a response of the generator                *)
(***************************************************************************)
FallbackScenario == "my name is john smith, i want a haircut with riya at 11 am tomorrow"

SpokenEmail == "shresth at the rate 4236 at gmail dot com"

\* ways of saying a time: an hour, minutes or none, a space or none, a
\* meridiem as it is spelled
TimeInputs ==
    { [hour |-> h, minutes |-> mi, meridiem |-> me[2],
       text |-> h \o (IF mi = "" THEN "" ELSE ":" \o mi) \o sep \o me[1]]
      : h \in {"1", "9", "11", "12"}, mi \in {"", "00", "30"}, sep \in {"", " "},
        me \in {<<"am", "AM">>, <<"AM", "AM">>, <<"a.m.", "AM">>,
                <<"pm", "PM">>, <<"PM", "PM">>, <<"p.m.", "PM">>} }

\* an hour without a meridiem, a meridiem without an hour in digits, neither
AmbiguousTimeTexts == {"at 11", "11:00", "eleven am", "in the morning"}

FallbackTexts ==
    {FallbackScenario, SpokenEmail} \cup {ti.text : ti \in TimeInputs}
    \cup AmbiguousTimeTexts

\* a value every slot's cleaning leaves as it is
SlotSample ==
    [slot \in Slots |->
        CASE slot = "customer_name" -> "Al"
          [] slot = "service_type" -> "Spa"
          [] slot = "preferred_stylist" -> "Riya"
          [] slot = "date" -> "Today"
          [] slot = "time" -> "9:00 AM"
          [] slot = "email" -> "a@b.io"
          [] OTHER -> "555"]

\* the shapes a slot's value may come in besides a string: an array, a
\* nested object, a number
Shapes == {"list", "dict", "num"}

Shaped(shape, str) ==
    CASE shape = "list" -> JList(<<EStr(str), EStr("x")>>)
      [] shape = "dict" -> JDict(<<EStr(str)>>)
      [] OTHER -> JNum("5")

\* a second slot of the same response, given as a string
Companion(slot) == IF slot = "date" THEN "time" ELSE "date"

\* a response with one slot in the shape and its companion a string
ShapedResponse(slot, shape) ==
    [kind |-> "object",
     object |-> [NullObject EXCEPT ![slot] = Shaped(shape, SlotSample[slot]),
                                   ![Companion(slot)] = JStr(SlotSample[Companion(slot)])]]

\* a response whose only slot is key, a string
StringResponse(key, str) ==
    [kind |-> "object", object |-> [NullObject EXCEPT ![key] = JStr(str)]]

ExtractorResponses ==
    {ShapedResponse(slot, shape) : slot \in Slots, shape \in Shapes}
    \cup {StringResponse("time", ti.text) : ti \in TimeInputs}
    \cup {StringResponse("time", text) : text \in AmbiguousTimeTexts}
    \cup {StringResponse("email", SpokenEmail)}

\* the extractions of these inputs, computed once
FallbackIn == [text \in FallbackTexts |-> ExtractMetadataRegex(text)]
CleanedIn == [response \in ExtractorResponses |-> ExtractMetadataWithLLM(response)]

InitExtract ==
    /\ InitWith(0)
    /\ endpoint = "routes"
    /\ llm_service
    /\ ~gmail_configured

\* memory_service._extract_metadata_regex(text)
CallExtractMetadataRegex ==
    \E text \in FallbackTexts :
        /\ applied' = [fn |-> "_extract_metadata_regex",
                       args |-> <<text>>,
                       result |-> FallbackIn[text]]
        /\ UNCHANGED <<config, conversations, conv_file, appointments, appt_file,
                       active_connections, pc, client_id, frame, rest, uuids,
                       requests, faults, mail_log, calls>>

\* await llm_service.extract_metadata_with_llm(conversation_text), the
\* generator answering with response
CallExtractMetadataWithLLM ==
    \E response \in ExtractorResponses :
        /\ applied' = [fn |-> "extract_metadata_with_llm",
                       args |-> <<response>>,
                       result |-> CleanedIn[response]]
        /\ UNCHANGED <<config, conversations, conv_file, appointments, appt_file,
                       active_connections, pc, client_id, frame, rest, uuids,
                       requests, faults, mail_log, calls>>

NextExtract ==
    \/ CallExtractMetadataRegex
    \/ CallExtractMetadataWithLLM

SpecExtract == InitExtract /\ [][NextExtract]_vars

(***************************************************************************)
(* The two should_book_appointment of the repository called directly on a  *)
(* reply and a field map                                                   *)
(***************************************************************************)
\* calls of should_book_appointment in a behaviour
MaxTriggerCalls == 1

\* field maps: each required field absent, empty or filled
TriggerMaps ==
    { [slot \in {s \in {"customer_name", "service_type", "email", "date", "time"} :
                  given[s] # "absent"} |-> given[slot]]
      : given \in [{"customer_name", "service_type", "email", "date", "time"}
                   -> {"absent", "", "x"}] }

\* await llm_service.should_book_appointment(llm_response, metadata), of the
\* LLMService of backend/ or of speedchain-assignment/backend/
CallShouldBookAppointment ==
    \E package \in {"backend", "speedchain-assignment/backend"},
       llm_response \in TriggerReplies, metadata \in TriggerMaps :
        /\ requests < MaxTriggerCalls
        /\ requests' = requests + 1
        /\ applied' = [fn |-> package \o "/services/llm_service.py",
                       args |-> <<llm_response, metadata>>,
                       result |-> IF package = "backend"
                                  THEN should_book_appointment(llm_response, metadata)
                                  ELSE should_book_appointment_assignment(
                                           llm_response, metadata)]
        /\ UNCHANGED <<config, conversations, conv_file, appointments, appt_file,
                       active_connections, pc, client_id, frame, rest, uuids,
                       faults, mail_log, calls>>

NextTrigger == CallShouldBookAppointment

SpecTrigger == InitExtract /\ [][NextTrigger]_vars

(***************************************************************************)
(* Properties                                                              *)
(***************************************************************************)
RequiredSlots == {"customer_name", "service_type", "email", "date", "time"}

SubmittedFields ==
    {"customer_name", "service_type", "stylist", "date", "time", "email", "phone"}

\* the lower-cased reply contains a confirmation phrase, for every reply of
\* the model, computed once
ConfirmationIn ==
    [reply \in Replies \cup {apology} |->
        \E i \in 1..Len(booking_phrases) : Contains(Lower(reply), booking_phrases[i])]
    @@ <<>>

\* every required slot is a key of fields with a non-empty value
SlotsFilled(fields) ==
    \A slot \in RequiredSlots : slot \in DOMAIN fields /\ fields[slot] # ""

\* no value of fields is non-empty
AllEmpty(fields) == \A slot \in DOMAIN fields : fields[slot] = ""

\* record carries id and the submitted values a
Reproduces(record, id, a) ==
    record.id = id /\ \A f \in SubmittedFields : record[f] = a[f]

\* C1: what should_book_appointment returns for a reply and the session's
\* field map is true exactly when the lower-cased reply contains a
\* confirmation phrase and every required slot is a key of the map with a
\* non-empty value.
C1_TriggerIffPhraseAndSlots ==
    [][\A w \in Conns :
          (pc[w] = "trigger" /\ pc'[w] # "trigger")
          => ((frame'[w].should_book = "yes")
              <=> (/\ ConfirmationIn[frame[w].llm_response]
                   /\ SlotsFilled(get_user_metadata(conversations, client_id[w]))))]_vars

\* a turn whose trigger said yes, and the booking it made
C1_Witness ==
    \E w \in Conns :
        /\ frame[w].should_book = "yes"
        /\ \E i \in 1..Len(calls) : calls[i].by = w

\* C2: a slot of a session's field map that holds a non-empty value holds a
\* non-empty value after every step.
C2_FilledSlotStaysFilled ==
    [][\A c \in DOMAIN conversations :
          \A slot \in DOMAIN conversations[c].metadata :
              conversations[c].metadata[slot] # ""
              => /\ c \in DOMAIN conversations'
                 /\ slot \in DOMAIN conversations'[c].metadata
                 /\ conversations'[c].metadata[slot] # ""]_vars

\* C3: a turn whose extraction holds no non-empty value leaves the session's
\* field map exactly as it was.
C3_EmptyMergeChangesNothing ==
    [][\A w \in Conns :
          (/\ pc[w] \in {"recv", "stt", "extract"}
           /\ pc'[w] = "reply"
           /\ AllEmpty(frame'[w].extracted))
          => get_user_metadata(conversations', client_id[w])
             = get_user_metadata(conversations, client_id[w])]_vars

\* C4: a call of schedule_appointment whose arguments leave a required slot
\* empty adds no record to the store in memory or on disk and requests no
\* confirmation.
C4_IncompleteCallRejected ==
    \A i \in 1..Len(calls) :
        (\E slot \in RequiredSlots : calls[i].args[slot] = "")
        => /\ calls[i].id \notin DOMAIN appointments
           /\ calls[i].id \notin DOMAIN Load(appt_file)
           /\ \A k \in 1..Len(mail_log) : mail_log[k].id # calls[i].id

\* C5: no session books twice with the same field values.
C5_OneBookingPerFieldSet ==
    \A i, j \in 1..Len(calls) :
        (i # j /\ calls[i].session # "" /\ calls[i].session = calls[j].session)
        => calls[i].args # calls[j].args

\* C6: a step is a call of schedule_appointment exactly when it adds a
\* record; the call adds one record, under an id no record had, leaves every
\* other record alone and requests one confirmation, for that id.
C6_EachCallAddsOneRecord ==
    [][IF Len(calls') = Len(calls) + 1
       THEN LET id == calls'[Len(calls')].id
            IN /\ id \notin DOMAIN appointments
               /\ DOMAIN appointments' = DOMAIN appointments \cup {id}
               /\ Cardinality(DOMAIN appointments')
                  = Cardinality(DOMAIN appointments) + 1
               /\ \A other \in DOMAIN appointments :
                      appointments'[other] = appointments[other]
               /\ Len(mail_log') = Len(mail_log) + 1
               /\ mail_log'[Len(mail_log')].id = id
               /\ \A k \in 1..Len(mail_log) : mail_log[k].id # id
       ELSE /\ Len(calls') = Len(calls)
            /\ DOMAIN appointments' = DOMAIN appointments
            /\ Len(mail_log') = Len(mail_log)]_vars

\* two calls, two records, two confirmation requests
C6_Witness ==
    /\ Len(calls) = 2
    /\ Cardinality(DOMAIN appointments) = 2
    /\ Len(mail_log) = 2
    /\ mail_log[1].id # mail_log[2].id

\* C7: when the confirmation of an appointment was not sent (the send raised,
\* or no credentials are configured) the record is in the store in memory and
\* on disk, and the call has returned the appointment's id.
C7_FailedSendKeepsBooking ==
    \A k \in 1..Len(mail_log) :
        mail_log[k].outcome \in {"error", "not_configured"}
        => /\ mail_log[k].id \in DOMAIN appointments
           /\ mail_log[k].id \in DOMAIN Load(appt_file)
           /\ \E i \in 1..Len(calls) :
                  /\ calls[i].id = mail_log[k].id
                  /\ calls[i].result.appointment_id = mail_log[k].id

\* a send that raised, for a booking of the turn loop, and the loop back at
\* receive
C7_Witness ==
    \E k \in 1..Len(mail_log), i \in 1..Len(calls) :
        /\ mail_log[k].outcome = "error"
        /\ calls[i].id = mail_log[k].id
        /\ calls[i].by \in Conns
        /\ pc[calls[i].by] = "recv"

\* C8: for every call of schedule_appointment made so far, the record under
\* the returned id, in get_all_appointments and in the reloaded file, carries
\* the submitted customer_name, service_type, stylist, date, time, email and
\* phone.
C8_CommittedRecordReproducesSubmission ==
    \A i \in 1..Len(calls) :
        /\ calls[i].id \in DOMAIN Load(appt_file)
        /\ Reproduces(Load(appt_file)[calls[i].id], calls[i].id, calls[i].args)
        /\ \E r \in get_all_appointments(appointments) : r.id = calls[i].id
        /\ \A r \in get_all_appointments(appointments) :
               r.id = calls[i].id => Reproduces(r, calls[i].id, calls[i].args)

\* two bookings with different values, the first still as submitted after
\* the second
C8_Witness ==
    /\ Len(calls) = 2
    /\ calls[1].args # calls[2].args
    /\ Reproduces(Load(appt_file)[calls[1].id], calls[1].id, calls[1].args)
    /\ Reproduces(Load(appt_file)[calls[2].id], calls[2].id, calls[2].args)

\* C9: when the generator's extraction fails, extract_metadata returns the
\* pattern fallback's extraction of the utterance and merges it into the
\* session's field map.
C9_FailedExtractionFallsBack ==
    [][\A w \in Conns :
          (/\ pc[w] = "extract"
           /\ pc'[w] = "reply"
           /\ "extractor" \in frame'[w].failed
           /\ ~FallbackOf[frame[w].text].raised)
          => /\ frame'[w].extracted = FallbackOf[frame[w].text].md
             /\ get_user_metadata(conversations', client_id[w])
                = Update(get_user_metadata(conversations, client_id[w]),
                         FallbackOf[frame[w].text].md)]_vars

\* C10: no step of a turn closes the loop, but for the IndexError of the
\* pattern fallback; a transcription that gives nothing takes the loop back
\* to receive; a failed generator appends the apology as the assistant's
\* message and the turn goes on to synthesis; a failed synthesis gives empty
\* audio and the turn goes on to the trigger; when the confirmation's send
\* ends, sent or not, the loop is back at receive.
C10_ProviderFailureKeepsLoop ==
    [][\A w \in Conns :
          LET history == get_conversation_history(conversations', client_id[w])
          IN /\ (pc[w] \in {"stt", "extract", "reply", "tts", "trigger", "mail"}
                 /\ pc'[w] = "closed")
                => (pc[w] = "stt" /\ frame'[w].extraction = "raised")
             /\ (pc[w] = "stt" /\ pc'[w] # "stt" /\ conversations' = conversations)
                => pc'[w] = "recv"
             /\ (pc[w] = "reply" /\ "generator" \in frame'[w].failed)
                => /\ pc'[w] = "tts"
                   /\ frame'[w].llm_response = apology
                   /\ history # <<>>
                   /\ history[Len(history)].role = "assistant"
                   /\ history[Len(history)].content = apology
             /\ (pc[w] = "tts" /\ "synthesizer" \in frame'[w].failed)
                => (pc'[w] = "trigger" /\ frame'[w].audio = "empty")
             /\ (pc[w] = "mail" /\ pc'[w] # "mail") => pc'[w] = "recv"
             /\ (pc[w] = "trigger" /\ pc'[w] # "trigger")
                => pc'[w] \in {"recv", "mail"}]_vars

\* a session whose generator failed in one turn, the apology in its history,
\* and whose next message is in its turn, generator and synthesizer failed
\* again, at the trigger
C10_Witness ==
    \E w \in Conns :
        LET history == get_conversation_history(conversations, client_id[w])
        IN /\ pc[w] = "trigger"
           /\ {"generator", "synthesizer"} \subseteq frame[w].failed
           /\ frame[w].audio = "empty"
           /\ \E i \in 1..Len(history) :
                  /\ i + 2 <= Len(history)
                  /\ history[i].content = apology
                  /\ history[i + 1].role = "user"
                  /\ history[i + 2].content = apology

(***************************************************************************)
(* The conversation store and the disk                                     *)
(***************************************************************************)
\* C11: when a write of the conversation file is interrupted after the file
\* was opened (the process is killed inside json.dump, or the write raises),
\* what _load_conversations reads on the next start still holds, for every
\* session the interrupted step did not mutate, the record the file held
\* before.
C11_InterruptedWriteKeepsOtherSessions ==
    [][(conv_file.ok /\ ~conv_file'.ok)
       => \A c \in DOMAIN Load(conv_file) :
              (c \in DOMAIN conversations /\ conversations'[c] = conversations[c])
              => /\ c \in DOMAIN Load(conv_file')
                 /\ Load(conv_file')[c] = Load(conv_file)[c]]_vars

\* p is a prefix of q
IsPrefix(p, q) == Len(p) <= Len(q) /\ \A i \in 1..Len(p) : q[i] = p[i]

\* C12: with the turns of the connections interleaved at their awaits, a
\* step changes the record of no session but that of the connection taking
\* it; no record loses a message or a field; the user's text, the merged
\* extraction and the reply are in the session's record when their step
\* ends; and the file holds what memory holds.
C12_InterleavedTurnsLoseNothing ==
    [][/\ conv_file' = [ok |-> TRUE, doc |-> conversations']
       /\ \A c \in DOMAIN conversations :
              /\ c \in DOMAIN conversations'
              /\ IsPrefix(conversations[c].messages, conversations'[c].messages)
              /\ DOMAIN conversations[c].metadata \subseteq DOMAIN conversations'[c].metadata
              /\ conversations'[c] # conversations[c]
                 => \E w \in Conns : client_id'[w] = c /\ pc'[w] # pc[w]
       /\ \A w \in Conns :
              LET history == get_conversation_history(conversations', client_id[w])
                  fields == get_user_metadata(conversations', client_id[w])
              IN /\ (pc[w] \in {"recv", "stt"} /\ pc'[w] \in {"extract", "reply"})
                    => /\ history # <<>>
                       /\ history[Len(history)].role = "user"
                       /\ history[Len(history)].content = frame'[w].text
                 /\ (pc[w] \in {"recv", "stt", "extract"} /\ pc'[w] = "reply")
                    => \A slot \in DOMAIN frame'[w].extracted :
                           /\ slot \in DOMAIN fields
                           /\ fields[slot] = frame'[w].extracted[slot]
                 /\ (pc[w] = "reply" /\ pc'[w] = "tts")
                    => /\ history[Len(history)].role = "assistant"
                       /\ history[Len(history)].content = frame'[w].llm_response]_vars

\* two sessions whose turns are both between their reply and their
\* synthesis, each with its text and its fields in its own record
C12_Witness ==
    /\ client_id["w1"] # client_id["w2"]
    /\ \A w \in Conns :
           /\ pc[w] = "tts"
           /\ frame[w].extracted # EmptyMap
           /\ Len(get_conversation_history(conversations, client_id[w])) = 3
           /\ get_user_metadata(conversations, client_id[w]) = frame[w].extracted
    /\ Load(conv_file) = conversations

\* C15: when the transcription of an audio message gives no text, the step
\* appends no message, changes no field, generates no reply, books nothing,
\* and leaves the loop at receive with the connection registered.
C15_EmptyTranscriptionSkipsTurn ==
    [][\A w \in Conns :
          (pc[w] = "stt" /\ pc'[w] # "stt" /\ frame'[w].text = "")
          => /\ conversations' = conversations
             /\ conv_file' = conv_file
             /\ frame'[w].llm_response = ""
             /\ calls' = calls
             /\ appointments' = appointments
             /\ mail_log' = mail_log
             /\ pc'[w] = "recv"
             /\ active_connections' = active_connections]_vars

\* an audio message was received and skipped: one request handled, nothing
\* but the greeting in the history, the loop at receive
C15_Witness ==
    /\ pc["w1"] = "recv"
    /\ pc["w2"] = "idle"
    /\ requests = 1
    /\ calls = <<>>
    /\ Len(get_conversation_history(conversations, client_id["w1"])) = 1

\* C13: a call of add_message appends one message, with the role and the
\* content given and a timestamp, after the messages the session had, which
\* stay as they were; for a session without a record it makes the record,
\* with that message alone and no fields but those the call brought; no other
\* call, and no call for another session, changes a session's history; and
\* get_conversation_history returns the history as it is stored.
C13_HistoryIsTheAppendedSequence ==
    [][/\ \A c \in DOMAIN conversations :
              /\ c \in DOMAIN conversations'
              /\ IsPrefix(conversations[c].messages, conversations'[c].messages)
       /\ IF applied'.fn = "add_message" /\ requests' = requests + 1
          THEN LET user_id == applied'.args[1]
                   before == get_conversation_history(conversations, user_id)
                   after == get_conversation_history(conversations', user_id)
               IN /\ Len(after) = Len(before) + 1
                  /\ after[Len(after)].role = applied'.args[2]
                  /\ after[Len(after)].content = applied'.args[3]
                  /\ "timestamp" \in DOMAIN after[Len(after)]
                  /\ after[Len(after)].timestamp # ""
                  /\ user_id \notin DOMAIN conversations
                     => conversations'[user_id].metadata = applied'.args[4]
                  /\ \A c \in DOMAIN conversations' \ {user_id} :
                         /\ c \in DOMAIN conversations
                         /\ conversations'[c].messages = conversations[c].messages
          ELSE /\ DOMAIN conversations' = DOMAIN conversations
               /\ \A c \in DOMAIN conversations :
                      conversations'[c].messages = conversations[c].messages
       /\ applied'.fn = "get_conversation_history"
          => applied'.result
             = IF applied'.args[1] \in DOMAIN conversations
               THEN conversations[applied'.args[1]].messages ELSE <<>>]_vars

\* a history of three messages, read back in the order they were appended
C13_Witness ==
    /\ applied.fn = "get_conversation_history"
    /\ Len(applied.result) = 3
    /\ applied.result[1].content # applied.result[2].content
    /\ applied.result[2].role # applied.result[3].role
    /\ applied.result = conversations[applied.args[1]].messages

\* C14: for a session without a record get_conversation_history returns the
\* empty sequence and get_user_metadata the empty map; either call leaves the
\* store in memory and both files as they were, and makes no record.
C14_ReadOfUnknownSessionIsEmpty ==
    [][(applied'.fn \in {"get_conversation_history", "get_user_metadata"}
        /\ applied'.args[1] \notin DOMAIN conversations)
       => /\ applied'.result = <<>>
          /\ applied'.result = EmptyMap
          /\ conversations' = conversations
          /\ applied'.args[1] \notin DOMAIN conversations'
          /\ conv_file' = conv_file
          /\ appointments' = appointments
          /\ appt_file' = appt_file]_vars

\* get_user_metadata called for a session that has no record, in a store
\* that holds two others with fields
C14_Witness ==
    /\ applied.fn = "get_user_metadata"
    /\ applied.args[1] = "c3"
    /\ applied.result = EmptyMap
    /\ DOMAIN conversations = {"c1", "c2"}
    /\ \A c \in DOMAIN conversations : conversations[c].metadata # EmptyMap

\* C16: when a call has changed the store in memory and its write did not
\* fail, the conversation file holds the whole of the store, every session's
\* record as it is in memory.
C16_SuccessfulWritePersistsWholeStore ==
    [][(conversations' # conversations /\ faults' = faults)
       => conv_file' = [ok |-> TRUE, doc |-> conversations']]_vars

\* an extract_metadata whose write succeeded after an earlier write had
\* failed: the file holds both sessions as memory does
C16_Witness ==
    /\ faults = 0
    /\ applied.fn = "extract_metadata"
    /\ applied.result.md # EmptyMap
    /\ DOMAIN conversations = {"c1", "c2"}
    /\ conversations[applied.args[1]].metadata = applied.result.md
    /\ conv_file = [ok |-> TRUE, doc |-> conversations]

(***************************************************************************)
(* The extractors                                                          *)
(***************************************************************************)
\* the time H:MM AM|PM of a time input: its hour, its minutes or 00, its
\* meridiem
Canonical(ti) ==
    ti.hour \o ":" \o (IF ti.minutes = "" THEN "00" ELSE ti.minutes) \o " " \o ti.meridiem

\* C17: the pattern fallback makes of the scenario's utterance exactly John
\* Smith, Haircut, Riya, 11:00 AM, Tomorrow.
C17_FallbackScenarioExtraction ==
    (applied.fn = "_extract_metadata_regex" /\ applied.args = <<FallbackScenario>>)
    => applied.result
       = Yield([customer_name |-> "John Smith", service_type |-> "Haircut",
                preferred_stylist |-> "Riya", time |-> "11:00 AM",
                date |-> "Tomorrow"])

\* C18: the spoken email comes out of the extractor's email handling as
\* shresth4236@gmail.com, from the utterance on the fallback path, from the
\* response's email value on the generator path.
C18_SpokenEmailNormalized ==
    /\ (applied.fn = "_extract_metadata_regex" /\ applied.args = <<SpokenEmail>>)
       => /\ "email" \in DOMAIN applied.result.md
          /\ applied.result.md["email"] = "shresth4236@gmail.com"
    /\ (/\ applied.fn = "extract_metadata_with_llm"
        /\ applied.args = <<StringResponse("email", SpokenEmail)>>)
       => /\ "email" \in DOMAIN applied.result
          /\ applied.result["email"] = "shresth4236@gmail.com"

\* C19: on either path a time said with an hour and a meridiem comes out as
\* H:MM AM|PM with the hour that was said, and a text without an hour or
\* without a meridiem leaves the time slot unset.
C19_TimeIsCanonical ==
    /\ \A ti \in TimeInputs :
           /\ (applied.fn = "_extract_metadata_regex" /\ applied.args = <<ti.text>>)
              => /\ "time" \in DOMAIN applied.result.md
                 /\ applied.result.md["time"] = Canonical(ti)
           /\ (/\ applied.fn = "extract_metadata_with_llm"
               /\ applied.args = <<StringResponse("time", ti.text)>>)
              => /\ "time" \in DOMAIN applied.result
                 /\ applied.result["time"] = Canonical(ti)
    /\ \A text \in AmbiguousTimeTexts :
           /\ (applied.fn = "_extract_metadata_regex" /\ applied.args = <<text>>)
              => "time" \notin DOMAIN applied.result.md
           /\ (/\ applied.fn = "extract_metadata_with_llm"
               /\ applied.args = <<StringResponse("time", text)>>)
              => "time" \notin DOMAIN applied.result

\* C20: of a response in which one slot is an array, a nested object or a
\* number, the companion slot is returned whatever the shape; the array
\* gives the slot its first element and the object its first scalar.
C20_ShapedValuesCollapse ==
    \A slot \in Slots, shape \in Shapes :
        (/\ applied.fn = "extract_metadata_with_llm"
         /\ applied.args = <<ShapedResponse(slot, shape)>>)
        => /\ Companion(slot) \in DOMAIN applied.result
           /\ applied.result[Companion(slot)] = SlotSample[Companion(slot)]
           /\ shape \in {"list", "dict"}
              => /\ slot \in DOMAIN applied.result
                 /\ applied.result[slot] = SlotSample[slot]

\* C21: preferred_stylist and phone never block a booking.  A turn whose
\* reply contains a confirmation phrase and whose session holds a non-empty
\* value for each of the five required slots calls schedule_appointment,
\* whether or not the session holds preferred_stylist and phone: the stylist
\* passed and recorded is the session's, "Any Available" when it has none,
\* and the phone is the session's, "" when it has none.
C21_OptionalSlotsNeverBlock ==
    [][\A w \in Conns :
          (/\ pc[w] = "trigger"
           /\ pc'[w] # "trigger"
           /\ ConfirmationIn[frame[w].llm_response]
           /\ SlotsFilled(get_user_metadata(conversations, client_id[w])))
          => /\ Len(calls') = Len(calls) + 1
             /\ calls'[Len(calls')].by = w
             /\ calls'[Len(calls')].args.stylist
                = Get(get_user_metadata(conversations, client_id[w]),
                      "preferred_stylist", "Any Available")
             /\ calls'[Len(calls')].args.phone
                = Get(get_user_metadata(conversations, client_id[w]), "phone", "")
             /\ calls'[Len(calls')].id \in DOMAIN appointments'
             /\ appointments'[calls'[Len(calls')].id].stylist
                = calls'[Len(calls')].args.stylist
             /\ appointments'[calls'[Len(calls')].id].phone
                = calls'[Len(calls')].args.phone]_vars

\* one session booked twice: without a stylist and a phone, and with both
C21_Witness ==
    \E i, j \in 1..Len(calls) :
        /\ calls[i].by \in Conns
        /\ calls[j].by \in Conns
        /\ calls[i].args.stylist = "Any Available"
        /\ calls[i].args.phone = ""
        /\ calls[j].args.stylist = "Maya"
        /\ calls[j].args.phone = "555 0100"
        /\ calls[j].id \in DOMAIN appointments
        /\ appointments[calls[j].id].stylist = "Maya"

\* C22: when the trigger is evaluated in a turn, the session's history holds
\* the turn's utterance and, after it, the turn's reply, and every field
\* extracted from the utterance (by the generator where the store has one,
\* by the patterns otherwise) is a key of the accumulated map the trigger
\* reads; under the endpoint of main.py and under that of
\* routes/websocket.py.
C22_ExtractionMergedBeforeTrigger ==
    \A w \in Conns :
        pc[w] = "trigger"
        => /\ \E i, j \in 1..Len(get_conversation_history(conversations, client_id[w])) :
                  /\ i < j
                  /\ conversations[client_id[w]].messages[i].role = "user"
                  /\ conversations[client_id[w]].messages[i].content = frame[w].text
                  /\ conversations[client_id[w]].messages[j].role = "assistant"
                  /\ conversations[client_id[w]].messages[j].content
                     = frame[w].llm_response
           /\ DOMAIN (IF llm_service THEN frame[w].extracted
                      ELSE FallbackOf[frame[w].text].md)
              \subseteq DOMAIN get_user_metadata(conversations, client_id[w])

\* connection w has received a message and has not finished its turn
InTurn(w) == pc[w] \in {"stt", "extract", "reply", "tts", "trigger", "mail"}

\* C23: the turns of one session id do not interleave: while a turn of the
\* session is between its receive and its last step, no other turn of the
\* same session id is, and no two extractions for it are awaited at once.
C23_TurnsOfASessionDoNotInterleave ==
    \A w \in Conns, v \in Conns :
        (w # v /\ pc[w] # "idle" /\ pc[v] # "idle" /\ client_id[w] = client_id[v])
        => /\ ~(InTurn(w) /\ InTurn(v))
           /\ ~(pc[w] = "extract" /\ pc[v] = "extract")

\* C24: when extract_metadata asks the generator for an extraction and the
\* session has accumulated fields, the call is given those fields as its
\* existing_metadata.
C24_ExistingFieldsPassedToGenerator ==
    [][\A w \in Conns :
          (/\ pc[w] # "extract"
           /\ pc'[w] = "extract"
           /\ get_user_metadata(conversations', client_id'[w]) # EmptyMap)
          => /\ frame'[w].request.existing_metadata.given
             /\ frame'[w].request.existing_metadata.value
                = get_user_metadata(conversations', client_id'[w])]_vars

\* C25: a call of schedule_appointment that has returned gave back the id of
\* the record it stored; that record has status "confirmed" and a link made
\* of its id, and the status the call returned is the record's status.
C25_ReturnedStatusIsTheRecords ==
    \A i \in 1..Len(calls) :
        calls[i].result # NoResult
        => /\ calls[i].result.appointment_id = calls[i].id
           /\ calls[i].id \in DOMAIN appointments
           /\ appointments[calls[i].id].status = "confirmed"
           /\ appointments[calls[i].id].meeting_link
              = "https://meet.google.com/demo-" \o SubSeq(calls[i].id, 1, 8)
           /\ calls[i].result.status = appointments[calls[i].id].status

\* the newest message of a session's history as a read returns it, a blank
\* one when the read returns no message
LastMessage(user_id) ==
    IF get_conversation_history(conversations, user_id) = <<>>
    THEN [role |-> "", content |-> "", timestamp |-> "", metadata |-> EmptyMap]
    ELSE get_conversation_history(conversations, user_id)
             [Len(get_conversation_history(conversations, user_id))]

\* C26: a write of the conversation file that fails inside add_message or
\* extract_metadata does not raise.  The step that holds the failed write
\* leaves the message or the merged fields in memory, where the reads find
\* them, and the turn goes on to its next step: the loop is left only when
\* the pattern fallback raised.
C26_FailedWriteKeepsMemoryAndTurn ==
    [][\A w \in Conns :
          (faults' < faults /\ pc[w] \in {"idle", "recv", "stt", "extract", "reply"}
           /\ pc'[w] # pc[w])
          => /\ pc'[w] = "closed" => frame'[w].extraction = "raised"
             /\ pc[w] = "idle"
                => /\ pc'[w] = "recv"
                   /\ LastMessage(client_id[w])'.role = "assistant"
                   /\ LastMessage(client_id[w])'.content = greeting
             /\ pc[w] \in {"recv", "stt"}
                => /\ LastMessage(client_id[w])'.role = "user"
                   /\ LastMessage(client_id[w])'.content = frame'[w].text
                   /\ frame'[w].extraction = "regex"
                      => /\ pc'[w] = "reply"
                         /\ \A slot \in DOMAIN frame'[w].extracted :
                               get_user_metadata(conversations', client_id[w])[slot]
                               = frame'[w].extracted[slot]
                   /\ frame'[w].extraction = "awaiting" => pc'[w] = "extract"
             /\ pc[w] = "extract"
                => /\ pc'[w] = "reply"
                   /\ \A slot \in DOMAIN frame'[w].extracted :
                         get_user_metadata(conversations', client_id[w])[slot]
                         = frame'[w].extracted[slot]
             /\ pc[w] = "reply"
                => /\ pc'[w] = "tts"
                   /\ LastMessage(client_id[w])'.role = "assistant"
                   /\ LastMessage(client_id[w])'.content = frame'[w].llm_response]_vars

\* the write of the reply failed: the reply is in the history in memory and
\* not in the file, and the turn has gone on to its trigger
C26_Witness ==
    \E w \in Conns :
        /\ pc[w] = "trigger"
        /\ faults < MaxDiskFaults
        /\ LastMessage(client_id[w]).content = frame[w].llm_response
        /\ Load(conv_file) # conversations
        /\ frame[w].extracted # EmptyMap

\* C27: the should_book_appointment of backend/services/llm_service.py and
\* that of speedchain-assignment/backend/services/llm_service.py return the
\* same result for every reply and every field map, a map that holds a
\* required slot with an empty value included: what one of them returned is
\* what the other returns on the same arguments.
C27_TriggerImplementationsAgree ==
    applied.fn \in {"backend/services/llm_service.py",
                    "speedchain-assignment/backend/services/llm_service.py"}
    => /\ applied.result = should_book_appointment(applied.args[1], applied.args[2])
       /\ applied.result
          = should_book_appointment_assignment(applied.args[1], applied.args[2])

\* C28: a text message t leaves the stores as an audio message transcribed
\* to t leaves them, the empty text included.  The audio branch takes a
\* transcription that is not empty through the steps of Utter and skips the
\* turn of an empty one, which changes no store; so must the text branch.
C28_TextAndAudioAgree ==
    [][\A w \in Conns, text \in TextInputs :
          (/\ pc[w] = "recv"
           /\ requests' = requests + 1
           /\ pc'[w] # "stt"
           /\ frame'[w].text = text)
          => IF text \in Utterances
             THEN Utter(w, text)
             ELSE /\ conversations' = conversations
                  /\ conv_file' = conv_file
                  /\ appointments' = appointments
                  /\ appt_file' = appt_file]_vars

\* C29: when a connection leaves while a second one, opened later under the
\* same client id, is registered for that id, the second one is still
\* registered afterwards, so that what is sent to the id reaches it.
C29_SecondConnectionStaysRegistered ==
    [][\A w \in Conns, v \in Conns :
          (/\ w # v
           /\ pc[w] = "recv"
           /\ pc'[w] = "closed"
           /\ pc[v] \notin {"idle", "closed"}
           /\ client_id[v] = client_id[w]
           /\ client_id[w] \in DOMAIN active_connections
           /\ active_connections[client_id[w]] = v)
          => /\ client_id[v] \in DOMAIN active_connections'
             /\ active_connections'[client_id[v]] = v]_vars

\* C30: in every state the turn loop reaches, the keys of each session's
\* accumulated field map are among customer_name, service_type,
\* preferred_stylist, date, time, email and phone, whether the fields came
\* from the generator or from the patterns.
C30_FieldKeysAreSlots ==
    \A c \in DOMAIN conversations :
        DOMAIN conversations[c].metadata
        \subseteq {"customer_name", "service_type", "preferred_stylist", "date",
                   "time", "email", "phone"}

\* a session that holds all seven, the stylist from a response that named
\* it under the key "stylist"
C30_Witness ==
    \E c \in DOMAIN conversations :
        /\ DOMAIN conversations[c].metadata
           = {"customer_name", "service_type", "preferred_stylist", "date", "time",
              "email", "phone"}
        /\ conversations[c].metadata["preferred_stylist"] = "Maya"
====
